---------------------------- MODULE Spec2Model ----------------------------
(***************************************************************************)
(* A state-machine model of ismrmrdviewer's ImageViewer                    *)
(* (src/src/ismrmrdviewer/viewer/ImageViewer.py), and of the navigation of *)
(* its whole-stack variant (src/ismrmrdviewer/viewer/ImageViewer.py),      *)
(* which keeps every frame in self.stack.                                  *)
(*                                                                         *)
(* The state is the widget's fields: the spin boxes of the seven axes      *)
(* (selected, maximum), the checked axis button, the animation toggle and  *)
(* timer, the geometric transform (nrot_, fliph_, flipv_), window/level    *)
(* with the drag anchor mloc, the memo table of fetch_image, the AxesImage *)
(* held in self.image, what was last drawn on the canvas and the label.    *)
(* Every event handler is one action.  A QTimer is a child of the widget,  *)
(* so the timers that self.timer no longer refers to are state as well     *)
(* (orphaned).                                                             *)
(*                                                                         *)
(* Numbers.  Pixels are integers.  window and level are floating point in  *)
(* the program; the model keeps them exactly, as integers in units of      *)
(* 1/(200*range): the variable window holds window*200*range and level     *)
(* holds level*200*range.  Clip values are kept in units of 1/400 and      *)
(* percentiles in units of 1/100.  Floating-point rounding is not          *)
(* modelled.  Only datasets whose initial frame is not constant            *)
(* (range > 0) are modelled: with range = 0 the program's window and level *)
(* are NaN or infinite.  Pixels are real-valued (the complex-magnitude     *)
(* branch of the constructor is not modelled).                             *)
(***************************************************************************)
EXTENDS Integers, Sequences, FiniteSets, TLC

VARIABLES
    container,      \* the dataset: [headers, data], read-only
    nphase, nset, nrep, nslice, ncontrast, nimg,
    data_,          \* self.data_: the pixel planes as the viewer holds them
    stack,          \* self.stack of the whole-stack variant, NoStack otherwise
    maximum,        \* maximum of each axis's spin box
    selected,       \* value of each axis's spin box
    checkedId,      \* dim_button_grp.checkedId()
    animateChecked, \* animate.isChecked()
    animateEnabled, \* animate.isEnabled()
    timer,          \* self.timer: NoTimer, or the running QTimer [dimName, interval]
    orphaned,       \* running QTimers (children of the widget) that
                    \* self.timer no longer refers to
    timer_interval, \* in ms
    nrot_, fliph_, flipv_,
    window, level,  \* in units of 1/(200*range)
    mloc,           \* NoLoc or <<x, y>>
    min, max, range,
    cache,          \* memo table of fetch_image: key -> matched record indices
    scans,          \* number of times the body of fetch_image ran
    requested,      \* history: every key fetch_image was called with
    image,          \* self.image: [frame, clim]
    ax,             \* what self.ax holds: "image" (self.image) or "clear"
    canvas,         \* what canvas.draw() painted last: Blank or [frame, clim]
    label,          \* text of self.label as the tuple of its six numbers
    out,            \* what the last handler wrote to a file, or NoOutput
    err,            \* exception that escaped the last handler, or "none"
    lastEvent,      \* name of the last handler run
    runImages       \* history: canvas before each of the last (at most 4)
                    \* consecutive runs of the same geometric handler

vars == <<container, nphase, nset, nrep, nslice, ncontrast, nimg, data_, stack, maximum, selected, checkedId, animateChecked,
          animateEnabled, timer, orphaned, timer_interval, nrot_, fliph_, flipv_,
          window, level, mloc, min, max, range, cache, scans, requested,
          image, ax, canvas, label, out, err, lastEvent, runImages>>

\* self.timer is None; self.mloc is None; nothing on the canvas; nothing written
NoTimer == [active |-> FALSE, dimName |-> "", interval |-> 0]
NoLoc == <<>>
NoStack == <<>>
Blank == [frame |-> <<>>, clim |-> <<>>]
NoOutput == [kind |-> "none", frames |-> <<>>]

DIMS == <<"Instance", "Repetition", "Set", "Phase", "Channel", "Slice", "Contrast">>

DimNames == {DIMS[i] : i \in 1..Len(DIMS)}

-----------------------------------------------------------------------------
(* numpy on 2-D arrays, a frame being a sequence of rows *)

\* np.flip(m, axis): axis 0 reverses the order of the rows, axis 1 the
\* order of the columns
flip(m, axis) ==
    IF axis = 0
    THEN [i \in 1..Len(m) |-> m[Len(m) + 1 - i]]
    ELSE [i \in 1..Len(m) |-> [j \in 1..Len(m[i]) |-> m[i][Len(m[i]) + 1 - j]]]

transpose(m) ==
    [j \in 1..Len(m[1]) |-> [i \in 1..Len(m) |-> m[i][j]]]

\* np.rot90(m, k, axes=(0,1)) as numpy computes it
rot90(m, k) ==
    LET kk == k % 4
    IN  CASE kk = 0 -> m
          [] kk = 2 -> flip(flip(m, 0), 1)
          [] kk = 1 -> transpose(flip(m, 1))
          [] OTHER  -> flip(transpose(m), 1)

\* the values of a frame, row by row
RECURSIVE Flatten(_)
Flatten(m) == IF m = <<>> THEN <<>> ELSE Head(m) \o Flatten(Tail(m))

RECURSIVE Insert(_, _)
Insert(x, s) ==
    IF s = <<>> THEN <<x>>
    ELSE IF x <= Head(s) THEN <<x>> \o s
    ELSE <<Head(s)>> \o Insert(x, Tail(s))

RECURSIVE Sort(_)
Sort(s) == IF s = <<>> THEN <<>> ELSE Insert(Head(s), Sort(Tail(s)))

FrameMin(m) == Sort(Flatten(m))[1]
FrameMax(m) == LET s == Sort(Flatten(m)) IN s[Len(s)]

\* 100 * np.percentile(m, q) (linear interpolation between the two nearest
\* order statistics); an integer when the pixels are integers
percentile(m, q) ==
    LET s    == Sort(Flatten(m))
        pos  == q * (Len(s) - 1)
        lo   == pos \div 100
        frac == pos % 100
    IN  IF frac = 0 THEN 100 * s[lo + 1]
        ELSE 100 * s[lo + 1] + frac * (s[lo + 2] - s[lo + 1])

-----------------------------------------------------------------------------
(* The datasets: container.images.headers and container.images.data *)

NumDatasets == 4

Hdr(r, s, p, sl, c, a) ==
    [repetition |-> r, set |-> s, phase |-> p, slice |-> sl, contrast |-> c,
     average |-> a]

\* a stored 2x2 plane with four distinct values, and a stored 1x2 plane
Plane(b) == << <<b, b + 1>>, <<b + 2, b + 3>> >>
Strip(b) == << <<b, b + 7>> >>

\* data[i][c][z] is the stored plane z of channel c of record i
Dataset(n) ==
    CASE n = 1 ->   \* dense: 2 repetitions x 2 slices, 2 channels
           [headers |-> << Hdr(0,0,0,0,0,1), Hdr(0,0,0,1,0,2),
                           Hdr(1,0,0,0,0,3), Hdr(1,0,0,1,0,4) >>,
            data    |-> << << << << <<0, 100>>, <<25, 75>> >> >>, <<Plane(10)>> >>,
                           << <<Plane(20)>>, <<Plane(30)>> >>,
                           << <<Plane(40)>>, <<Plane(50)>> >>,
                           << <<Plane(60)>>, <<Plane(70)>> >> >>]
      [] n = 2 ->   \* uneven instance counts: 3 records of repetition 0, 1 of repetition 1
           [headers |-> << Hdr(0,0,0,0,0,1), Hdr(0,0,0,0,0,2),
                           Hdr(1,0,0,0,0,1), Hdr(0,0,0,0,0,3) >>,
            data    |-> << << <<Strip(10)>> >>, << <<Strip(20)>> >>,
                           << <<Strip(30)>> >>, << <<Strip(40)>> >> >>]
      [] n = 3 ->   \* sparse: no record of (repetition 1, contrast 0)
           [headers |-> << Hdr(0,0,0,0,0,1), Hdr(0,0,0,0,1,1),
                           Hdr(1,0,0,0,1,1), Hdr(1,0,0,0,1,2) >>,
            data    |-> << << <<Plane(5)>> >>, << <<Plane(15)>> >>,
                           << <<Plane(25)>> >>, << <<Plane(35)>> >> >>]
      [] n = 4 ->   \* dense: 2 sets x 2 phases
           [headers |-> << Hdr(0,0,0,0,0,1), Hdr(0,0,1,0,0,2),
                           Hdr(0,1,0,0,0,3), Hdr(0,1,1,0,0,4) >>,
            data    |-> << << <<Plane(1)>> >>, << <<Plane(11)>> >>,
                           << <<Plane(21)>> >>, << <<Plane(31)>> >> >>]
      [] OTHER ->   \* dense: 2 repetitions x 3 slices, 2 channels
           [headers |-> << Hdr(0,0,0,0,0,1), Hdr(0,0,0,1,0,1), Hdr(0,0,0,2,0,1),
                           Hdr(1,0,0,0,0,1), Hdr(1,0,0,1,0,1), Hdr(1,0,0,2,0,1) >>,
            data    |-> << << <<Plane(0)>>,  <<Plane(10)>> >>,
                           << <<Plane(20)>>, <<Plane(30)>> >>,
                           << <<Plane(40)>>, <<Plane(50)>> >>,
                           << <<Plane(60)>>, <<Plane(70)>> >>,
                           << <<Plane(80)>>, <<Plane(90)>> >>,
                           << <<Plane(100)>>, <<Plane(110)>> >> >>]

\* sparse, fewer records than coordinate tuples: no record of
\* (repetition 1, contrast 0), one of each other tuple
SparseThree ==
    [headers |-> << Hdr(0,0,0,0,0,1), Hdr(0,0,0,0,1,1), Hdr(1,0,0,0,1,1) >>,
     data    |-> << << <<Plane(5)>> >>, << <<Plane(15)>> >>, << <<Plane(25)>> >> >>]

\* two records that differ in repetition only, 1 channel
TwoRecords ==
    [headers |-> << Hdr(0,0,0,0,0,1), Hdr(1,0,0,0,0,1) >>,
     data    |-> << << <<Plane(10)>> >>, << <<Plane(20)>> >> >>]

headers == container.headers

\* the planes of self.data_: every stored plane rotated and flipped once
RotatedData(data) ==
    [i \in 1..Len(data) |->
        [c \in 1..Len(data[i]) |->
            [z \in 1..Len(data[i][c]) |->
                flip(rot90(data[i][c][z], 1), 1)]]]

RECURSIVE SeqMax(_)
SeqMax(s) ==
    IF Len(s) = 1 THEN s[1]
    ELSE LET m == SeqMax(Tail(s)) IN IF s[1] > m THEN s[1] ELSE m

\* int(np.max(headers[field]) + 1)
AxisCardinality(field) == SeqMax([i \in 1..Len(headers) |-> headers[i][field]]) + 1

\* data_.shape[1]: every record of a dataset has the same number of channels
nchannel  == Len(data_[1])

-----------------------------------------------------------------------------
(* fetch_image and its functools.cache *)

\* mutant: the rotation count as a sixth component of the cache key
Key_with_rotation(sel) ==
    <<sel["Repetition"], sel["Set"], sel["Phase"], sel["Slice"], sel["Contrast"], nrot_>>

Key(sel) == <<sel["Repetition"], sel["Set"], sel["Phase"], sel["Slice"], sel["Contrast"]>>

\* mutant: the mask without its contrast term
idx_no_contrast(key) ==
    [i \in 1..Len(headers) |->
        /\ headers[i].phase = key[3]
        /\ headers[i].set = key[2]
        /\ headers[i].repetition = key[1]
        /\ headers[i].slice = key[4]]

\* the boolean mask idx_ of fetch_image
idx_(key) ==
    [i \in 1..Len(headers) |->
        /\ headers[i].phase = key[3]
        /\ headers[i].set = key[2]
        /\ headers[i].repetition = key[1]
        /\ headers[i].slice = key[4]
        /\ headers[i].contrast = key[5]]

\* data_[idx_]: the positions where the mask is true, in storage order
RECURSIVE MaskSelect(_, _)
MaskSelect(mask, i) ==
    IF i > Len(mask) THEN <<>>
    ELSE (IF mask[i] THEN <<i>> ELSE <<>>) \o MaskSelect(mask, i + 1)

\* the body of fetch_image: the indices of the records it returns
fetch_image_body(key) == MaskSelect(idx_(key), 1)

\* mutant: fetch_image scanning on every call
fetch_image_uncached(c, key) ==
    [cache     |-> IF key \in DOMAIN c.cache THEN c.cache
                   ELSE c.cache @@ (key :> fetch_image_body(key)),
     scans     |-> c.scans + 1,
     requested |-> c.requested \cup {key}]

\* a call of the memoised fetch_image on memo state c = [cache, scans,
\* requested]; the value it returns is then cache[key]
fetch_image(c, key) ==
    IF key \in DOMAIN c.cache
    THEN [c EXCEPT !.requested = @ \cup {key}]
    ELSE [cache     |-> c.cache @@ (key :> fetch_image_body(key)),
          scans     |-> c.scans + 1,
          requested |-> c.requested \cup {key}]

Memo == [cache |-> cache, scans |-> scans, requested |-> requested]

-----------------------------------------------------------------------------
(* current_frame, window_level, update_image *)

\* fetched[frame()][coil()][0] raises IndexError unless all three indices
\* are inside the array
\* position (from 1) of a[i] in an array of length n; a negative i counts
\* from the end
Position(i, n) == IF i < 0 THEN n + i + 1 ELSE i + 1

PickOK(matches, sel) ==
    /\ sel["Instance"] < Len(matches)
    /\ sel["Instance"] >= -Len(matches)
    /\ sel["Channel"] < Len(data_[matches[Position(sel["Instance"], Len(matches))]])
    /\ 0 < Len(data_[matches[Position(sel["Instance"], Len(matches))]][sel["Channel"] + 1])

Pick(matches, sel) ==
    data_[matches[Position(sel["Instance"], Len(matches))]][sel["Channel"] + 1][1]

\* mutant: the rotation before the flips
Transformed_rotation_first(im, n, fh, fv) ==
    LET a == rot90(im, n)
        b == IF fh THEN flip(a, 1) ELSE a
    IN  IF fv THEN flip(b, 0) ELSE b

\* the flips and the rotation of current_frame (and of save_movie)
Transformed(im, n, fh, fv) ==
    LET a == IF fh THEN flip(im, 1) ELSE im
        b == IF fv THEN flip(a, 0) ELSE a
    IN  rot90(b, n)

\* window_level(): <<clip_low, clip_high>> in units of 1/400
\* mutant: the window not halved
window_level_full_window(w, l, mn) == <<2 * l - 2 * w + 400 * mn, 2 * l + 2 * w + 400 * mn>>

window_level(w, l, mn) ==
    << 2 * l - w + 400 * mn, 2 * l + w + 400 * mn >>

\* the index of the header used for the label
LabelIndex(sel) ==
    sel["Instance"] * sel["Repetition"] * sel["Set"] * sel["Phase"]
      + sel["Repetition"] * sel["Set"] * sel["Phase"]
      + sel["Set"] * sel["Phase"] + sel["Phase"]

LabelOf(sel) ==
    LET idx == headers[Position(LabelIndex(sel), Len(headers))]
    IN  <<idx.average, idx.slice, idx.contrast, sel["Phase"], idx.repetition, sel["Set"]>>

\* mutant: an instance beyond the matches shows the last match instead of
\* raising
update_image_clamped(sel, n, fh, fv, c, img, cv, lbl) ==
    LET c2      == fetch_image(c, Key(sel))
        matches == c2.cache[Key(sel)]
        last    == [sel EXCEPT !["Instance"] = Len(matches) - 1]
    IN  IF matches = <<>>
        THEN [c |-> c2, image |-> img, ax |-> "clear", canvas |-> cv,
              label |-> lbl, err |-> "IndexError@current_frame"]
        ELSE LET new == [frame |-> Transformed(
                                     Pick(matches, IF PickOK(matches, sel)
                                                   THEN sel ELSE last),
                                     n, fh, fv),
                         clim  |-> window_level(window, level, min)]
             IN  [c |-> c2, image |-> new, ax |-> "image", canvas |-> new,
                  label |-> lbl, err |-> "none"]

\* update_image() for selection sel and transform n, fh, fv on memo state c,
\* with img, cv, lbl the image, canvas and label before the call: the fields
\* the call leaves behind.  An IndexError raised by current_frame() escapes
\* after ax.clear() and before imshow and canvas.draw(); one raised by the
\* label's header lookup escapes after the draw.
update_image(sel, n, fh, fv, c, img, cv, lbl) ==
    LET c2      == fetch_image(c, Key(sel))
        matches == c2.cache[Key(sel)]
    IN  IF ~PickOK(matches, sel)
        THEN [c |-> c2, image |-> img, ax |-> "clear", canvas |-> cv,
              label |-> lbl, err |-> "IndexError@current_frame"]
        ELSE LET new == [frame |-> Transformed(Pick(matches, sel), n, fh, fv),
                         clim  |-> window_level(window, level, min)]
             IN  IF LabelIndex(sel) >= Len(headers) \/ LabelIndex(sel) < -Len(headers)
                 THEN [c |-> c2, image |-> new, ax |-> "image", canvas |-> new,
                       label |-> lbl, err |-> "IndexError@label"]
                 ELSE [c |-> c2, image |-> new, ax |-> "image", canvas |-> new,
                       label |-> LabelOf(sel), err |-> "none"]

-----------------------------------------------------------------------------
(* Construction *)

DefaultTimerInterval == 100

Origin == [d \in DimNames |-> 0]

\* the spin boxes after the setMaximum calls: a QSpinBox starts at 0 with
\* minimum 0, and setMaximum(-1) lowers the minimum and the value to -1
Minimum(mx) == IF mx < 0 THEN mx ELSE 0

FirstSelection == [d \in DimNames |-> Minimum(maximum[d])]

\* the state __init__ leaves on a dataset, if it completes
InitOn(dataset) ==
        /\ container = dataset
        /\ nphase = AxisCardinality("phase")
        /\ nset = AxisCardinality("set")
        /\ nrep = AxisCardinality("repetition")
        /\ nslice = AxisCardinality("slice")
        /\ ncontrast = AxisCardinality("contrast")
        /\ nimg = Len(headers) \div (nphase * nset * nrep * nslice * ncontrast)
        /\ data_ = RotatedData(container.data)
        /\ stack = NoStack
        /\ maximum = [d \in DimNames |->
                        CASE d = "Instance"   -> nimg - 1
                          [] d = "Phase"      -> nphase - 1
                          [] d = "Set"        -> nset - 1
                          [] d = "Repetition" -> nrep - 1
                          [] d = "Slice"      -> nslice - 1
                          [] d = "Contrast"   -> ncontrast - 1
                          [] OTHER            -> nchannel - 1]
        /\ selected = FirstSelection
        /\ checkedId = 0
        /\ animateChecked = FALSE
        /\ animateEnabled = (nimg # 1)
        /\ timer = NoTimer
        /\ orphaned = <<>>
        /\ timer_interval = DefaultTimerInterval
        /\ nrot_ = 0
        /\ fliph_ = FALSE
        /\ flipv_ = FALSE
        /\ mloc = NoLoc
        /\ LET c0 == fetch_image([cache |-> <<>>, scans |-> 0, requested |-> {}],
                                 Key(FirstSelection))
               m0 == c0.cache[Key(FirstSelection)]
           IN  /\ PickOK(m0, FirstSelection)
               /\ LET f0 == Transformed(Pick(m0, FirstSelection), 0, FALSE, FALSE)
                  IN  /\ min = FrameMin(f0)
                      /\ max = FrameMax(f0)
                      /\ range = FrameMax(f0) - FrameMin(f0)
                      /\ range > 0
                      /\ window = 2 * (percentile(f0, 98) - percentile(f0, 2))
                      /\ level = percentile(f0, 98) + percentile(f0, 2)
               /\ LET u == update_image(FirstSelection, 0, FALSE, FALSE, c0, Blank, Blank, <<>>)
                  IN  /\ cache = u.c.cache
                      /\ scans = u.c.scans
                      /\ requested = u.c.requested
                      /\ image = u.image
                      /\ ax = u.ax
                      /\ canvas = u.canvas
                      /\ label = u.label
                      /\ u.err = "none"
        /\ out = NoOutput
        /\ err = "none"
        /\ lastEvent = "__init__"
        /\ runImages = <<>>

Init == \E n \in 1..NumDatasets : InitOn(Dataset(n))

-----------------------------------------------------------------------------
(* Bookkeeping shared by the handlers *)

GeometricEvents == {"rotate_cw", "rotate_ccw", "flip_h", "flip_v"}

LastFour(s) == IF Len(s) > 4 THEN SubSeq(s, Len(s) - 3, Len(s)) ELSE s

\* records that handler ev ran
Ran(ev) ==
    /\ lastEvent' = ev
    /\ runImages' = IF ev \in GeometricEvents
                    THEN IF lastEvent = ev
                         THEN LastFour(Append(runImages, canvas))
                         ELSE <<canvas>>
                    ELSE <<>>

\* the fields update_image() (or a spin box's setValue) left behind
Updated(u) ==
    /\ cache' = u.c.cache
    /\ scans' = u.c.scans
    /\ requested' = u.c.requested
    /\ image' = u.image
    /\ ax' = u.ax
    /\ canvas' = u.canvas
    /\ label' = u.label
    /\ err' = u.err

Memoised(c) ==
    /\ cache' = c.cache
    /\ scans' = c.scans
    /\ requested' = c.requested

\* QSpinBox.setValue(x) on axis dim: the value is forced into
\* [0, maximum]; valueChanged, and with it update_image, fires only when the
\* value changes
setValue(dim, x, c) ==
    LET v   == IF x < Minimum(maximum[dim]) THEN Minimum(maximum[dim])
               ELSE IF x > maximum[dim] THEN maximum[dim] ELSE x
        sel == [selected EXCEPT ![dim] = v]
    IN  IF v = selected[dim]
        THEN [sel |-> selected, c |-> c, image |-> image, ax |-> ax,
              canvas |-> canvas, label |-> label, err |-> "none"]
        ELSE [sel |-> sel] @@ update_image(sel, nrot_, fliph_, flipv_, c,
                                           image, canvas, label)

\* image_shape()[0..6], after the fetch_image calls it makes
image_shape == <<nimg, nrep, nset, nphase, nslice, ncontrast, nchannel>>

\* update_wl() with window w and level l: the clip range is set on
\* self.image and the canvas is redrawn from what the axes hold
update_wl(w, l) ==
    /\ image' = [image EXCEPT !.clim = window_level(w, l, min)]
    /\ canvas' = IF ax = "image" THEN image' ELSE Blank
    /\ UNCHANGED <<ax, label>>

dataVars == <<container, nphase, nset, nrep, nslice, ncontrast, nimg, data_, stack,
              maximum, min, max, range>>
animVars == <<animateChecked, animateEnabled, timer, orphaned, timer_interval>>
geomVars == <<nrot_, fliph_, flipv_>>
wlVars   == <<window, level, mloc>>
memoVars == <<cache, scans, requested>>
viewVars == <<image, ax, canvas, label>>

-----------------------------------------------------------------------------
(* Inputs *)

\* pointer coordinates are multiples of PointerStep pixels, up to MaxPointer steps
PointerStep == 150
MaxPointer == 1
PointerPositions == {k * PointerStep : k \in 0..MaxPointer}

\* values typed into the window and level spin boxes, as multiples of
\* range/2: window -1, 0.5 and 5, level -1, 0.5 and 2 (times range)
WindowInputs == {-2, 1, 10}
LevelInputs == {-2, 1, 4}

\* frame rates typed into the frame-rate spin box
FrameRates == {10, 20}
\* most QTimers left running without a reference
MaxOrphaned == 2

WheelDeltas == {-1, 0, 1}

-----------------------------------------------------------------------------
(* Navigation *)

\* the user changes the spin box of an enabled axis: valueChanged -> update_image
valueChanged(dim, v) ==
    /\ maximum[dim] > 0
    /\ v \in 0..maximum[dim]
    /\ v # selected[dim]
    /\ LET u == setValue(dim, v, Memo)
       IN  /\ selected' = u.sel
           /\ Updated(u)
    /\ out' = NoOutput
    /\ Ran("valueChanged")
    /\ UNCHANGED <<dataVars, checkedId, animVars, geomVars, wlVars>>

wheelEvent(delta_steps) ==
    LET dimName == DIMS[checkedId + 1]
        new_v   == IF delta_steps > 0 THEN selected[dimName] - 1
                   ELSE selected[dimName] + 1
        limit   == image_shape[checkedId + 1] - 1
        target  == IF new_v < limit THEN (IF new_v > 0 THEN new_v ELSE 0)
                   ELSE (IF limit > 0 THEN limit ELSE 0)
    IN  /\ IF delta_steps = 0
           THEN /\ err' = "none"
                /\ UNCHANGED <<selected, memoVars, viewVars>>
           ELSE LET u == setValue(dimName, target, fetch_image(Memo, Key(selected)))
                IN  /\ selected' = u.sel
                    /\ Updated(u)
        /\ out' = NoOutput
        /\ Ran("wheelEvent")
        /\ UNCHANGED <<dataVars, checkedId, animVars, geomVars, wlVars>>

\* mutant: the toggle unchecked together with the disabling of the button
check_dim_unchecks(dim_i) ==
    /\ maximum[DIMS[dim_i + 1]] # 0
    /\ checkedId' = dim_i
    /\ Memoised(fetch_image(Memo, Key(selected)))
    /\ animateEnabled' = (image_shape[dim_i + 1] > 1)
    /\ animateChecked' = (animateChecked /\ animateEnabled')
    /\ out' = NoOutput
    /\ err' = "none"
    /\ Ran("check_dim")
    /\ UNCHANGED <<dataVars, selected, timer, orphaned, timer_interval,
                   geomVars, wlVars, viewVars>>

\* the user clicks the button of an enabled axis: buttonClicked -> check_dim
check_dim(dim_i) ==
    /\ maximum[DIMS[dim_i + 1]] # 0
    /\ checkedId' = dim_i
    /\ Memoised(fetch_image(Memo, Key(selected)))
    /\ animateEnabled' = (image_shape[dim_i + 1] > 1)
    /\ out' = NoOutput
    /\ err' = "none"
    /\ Ran("check_dim")
    /\ UNCHANGED <<dataVars, selected, animateChecked, timer, orphaned, timer_interval,
                   geomVars, wlVars, viewVars>>

-----------------------------------------------------------------------------
(* Animation *)

set_timer_interval(fps) ==
    /\ timer_interval' = 1000 \div fps
    /\ timer_interval' # timer_interval
    /\ out' = NoOutput
    /\ err' = "none"
    /\ Ran("set_timer_interval")
    /\ UNCHANGED <<dataVars, selected, checkedId, animateChecked, animateEnabled,
                   timer, orphaned, geomVars, wlVars, memoVars, viewVars>>

\* mutant: the toggle switched off leaves the timer running
animate_frames_no_stop(checked) ==
    LET dimName == DIMS[checkedId + 1]
    IN  /\ IF ~checked \/ maximum[dimName] = 0
           THEN /\ animateChecked' = FALSE
                /\ timer' = timer
                /\ orphaned' = orphaned
           ELSE /\ animateChecked' = TRUE
                /\ timer' = [active |-> TRUE, dimName |-> dimName,
                             interval |-> timer_interval]
                /\ orphaned' = IF timer.active THEN Append(orphaned, timer)
                               ELSE orphaned
        /\ out' = NoOutput
        /\ err' = "none"
        /\ Ran("animate_frames")
        /\ UNCHANGED <<dataVars, selected, checkedId, animateEnabled, timer_interval,
                       geomVars, wlVars, memoVars, viewVars>>

\* animate_frames() run while animate.isChecked() is `checked`.  A QTimer is
\* a child of the widget: one that self.timer no longer refers to keeps
\* running.
animate_frames_with(checked) ==
    LET dimName == DIMS[checkedId + 1]
    IN  /\ IF ~checked
           THEN /\ animateChecked' = FALSE
                /\ timer' = NoTimer
                /\ orphaned' = orphaned
           ELSE IF maximum[dimName] = 0
           THEN /\ animateChecked' = FALSE
                /\ timer' = timer
                /\ orphaned' = orphaned
           ELSE /\ animateChecked' = TRUE
                /\ timer' = [active |-> TRUE, dimName |-> dimName,
                             interval |-> timer_interval]
                /\ orphaned' = IF timer.active THEN Append(orphaned, timer)
                               ELSE orphaned
        /\ out' = NoOutput
        /\ err' = "none"
        /\ Ran("animate_frames")
        /\ UNCHANGED <<dataVars, selected, checkedId, animateEnabled, timer_interval,
                       geomVars, wlVars, memoVars, viewVars>>

\* a click on the enabled animate button toggles it, then animate_frames runs
animate_frames ==
    /\ animateEnabled
    /\ animate_frames_with(~animateChecked)

\* the slot run without a click, with the toggle in either state
animate_frames_called ==
    \E checked \in BOOLEAN :
        /\ Len(orphaned) < MaxOrphaned
        /\ animate_frames_with(checked)

\* Python's a % m for m # 0: the result has the sign of m
py_mod(a, m) == IF m > 0 THEN a % m ELSE -((-a) % (-m))

\* the QTimers that are running
RunningTimers ==
    (IF timer.active THEN {timer} ELSE {}) \cup {orphaned[i] : i \in 1..Len(orphaned)}

\* mutant: a tick that drives the axis whose button is checked now
increment_checked_axis ==
    /\ RunningTimers # {}
    /\ LET dimName == DIMS[checkedId + 1]
           v == selected[dimName]
           m == maximum[dimName]
           u == setValue(dimName, py_mod(v + 1, m), Memo)
       IN  /\ selected' = u.sel
           /\ Updated(u)
    /\ out' = NoOutput
    /\ Ran("increment")
    /\ UNCHANGED <<dataVars, checkedId, animVars, geomVars, wlVars>>

\* a running timer fires
increment ==
    \E t \in RunningTimers :
        /\ LET v == selected[t.dimName]
               m == maximum[t.dimName]
               u == setValue(t.dimName, py_mod(v + 1, m), Memo)
           IN  /\ selected' = u.sel
               /\ Updated(u)
        /\ out' = NoOutput
        /\ Ran("increment")
        /\ UNCHANGED <<dataVars, checkedId, animVars, geomVars, wlVars>>

-----------------------------------------------------------------------------
(* Rotation and flips *)

Redrawn(n, fh, fv) ==
    Updated(update_image(selected, n, fh, fv, Memo, image, canvas, label))

\* mutant: the quarter-turn counter wrapping at 3
rotate_cw_mod3 ==
    /\ nrot_' = (nrot_ + 1) % 3
    /\ Redrawn(nrot_', fliph_, flipv_)
    /\ out' = NoOutput
    /\ Ran("rotate_cw")
    /\ UNCHANGED <<dataVars, selected, checkedId, animVars, fliph_, flipv_, wlVars>>

rotate_cw ==
    /\ nrot_' = (nrot_ + 1) % 4
    /\ Redrawn(nrot_', fliph_, flipv_)
    /\ out' = NoOutput
    /\ Ran("rotate_cw")
    /\ UNCHANGED <<dataVars, selected, checkedId, animVars, fliph_, flipv_, wlVars>>

\* mutant: the counter-clockwise button taking two quarters
rotate_ccw_two ==
    /\ nrot_' = (nrot_ - 2) % 4
    /\ Redrawn(nrot_', fliph_, flipv_)
    /\ out' = NoOutput
    /\ Ran("rotate_ccw")
    /\ UNCHANGED <<dataVars, selected, checkedId, animVars, fliph_, flipv_, wlVars>>

rotate_ccw ==
    /\ nrot_' = (nrot_ - 1) % 4
    /\ Redrawn(nrot_', fliph_, flipv_)
    /\ out' = NoOutput
    /\ Ran("rotate_ccw")
    /\ UNCHANGED <<dataVars, selected, checkedId, animVars, fliph_, flipv_, wlVars>>

flip_h ==
    /\ fliph_' = ~fliph_
    /\ Redrawn(nrot_, fliph_', flipv_)
    /\ out' = NoOutput
    /\ Ran("flip_h")
    /\ UNCHANGED <<dataVars, selected, checkedId, animVars, nrot_, flipv_, wlVars>>

flip_v ==
    /\ flipv_' = ~flipv_
    /\ Redrawn(nrot_, fliph_, flipv_')
    /\ out' = NoOutput
    /\ Ran("flip_v")
    /\ UNCHANGED <<dataVars, selected, checkedId, animVars, nrot_, fliph_, wlVars>>

-----------------------------------------------------------------------------
(* Window and level *)

\* the window spin box changes to value = h * range / 2
window_input(h) ==
    /\ window' = 100 * h * range
    /\ update_wl(window', level)
    /\ out' = NoOutput
    /\ err' = "none"
    /\ Ran("window_input")
    /\ UNCHANGED <<dataVars, selected, checkedId, animVars, geomVars, level, mloc,
                   memoVars>>

level_input(h) ==
    /\ level' = 100 * h * range
    /\ update_wl(window, level')
    /\ out' = NoOutput
    /\ err' = "none"
    /\ Ran("level_input")
    /\ UNCHANGED <<dataVars, selected, checkedId, animVars, geomVars, window, mloc,
                   memoVars>>

\* mutant: no bound applied
Clamp_none(x, lo, hi) == x

Clamp(x, lo, hi) == IF x < lo THEN lo ELSE IF x > hi THEN hi ELSE x

mouseMoveEvent(newx, newy) ==
    /\ IF mloc = NoLoc
       THEN UNCHANGED <<window, level, viewVars>>
       ELSE /\ window' = Clamp(window - 2 * range * (newx - mloc[1]), 0, 400 * range)
            /\ level' = Clamp(level - 2 * range * (newy - mloc[2]), 0, 200 * range)
            /\ update_wl(window', level')
    /\ mloc' = <<newx, newy>>
    /\ out' = NoOutput
    /\ err' = "none"
    /\ Ran("mouseMoveEvent")
    /\ UNCHANGED <<dataVars, selected, checkedId, animVars, geomVars, memoVars>>

\* mutant: a release that keeps the recorded position
mouseReleaseEvent_keeps_mloc ==
    /\ out' = NoOutput
    /\ err' = "none"
    /\ Ran("mouseReleaseEvent")
    /\ UNCHANGED <<dataVars, selected, checkedId, animVars, geomVars, window, level,
                   mloc, memoVars, viewVars>>

mouseReleaseEvent ==
    /\ mloc' = NoLoc
    /\ out' = NoOutput
    /\ err' = "none"
    /\ Ran("mouseReleaseEvent")
    /\ UNCHANGED <<dataVars, selected, checkedId, animVars, geomVars, window, level,
                   memoVars, viewVars>>

\* mutant: the percentiles of the frame shown at construction
mouseDoubleClickEvent_first_frame ==
    LET c       == fetch_image(Memo, Key(selected))
        matches == c.cache[Key(selected)]
        first   == c.cache[Key(FirstSelection)]
    IN  /\ Memoised(c)
        /\ IF ~PickOK(matches, selected)
           THEN /\ err' = "IndexError@current_frame"
                /\ UNCHANGED <<window, level, viewVars>>
           ELSE LET f  == Transformed(Pick(first, FirstSelection), nrot_, fliph_, flipv_)
                    v1 == percentile(f, 2)
                    v2 == percentile(f, 98)
                IN  /\ window' = 2 * (v2 - v1)
                    /\ level' = v2 + v1
                    /\ update_wl(window', level')
                    /\ err' = "none"
        /\ out' = NoOutput
        /\ Ran("mouseDoubleClickEvent")
        /\ UNCHANGED <<dataVars, selected, checkedId, animVars, geomVars, mloc>>

\* mutant: min, max and range taken again from the frame on display
mouseDoubleClickEvent_rescales ==
    LET c       == fetch_image(Memo, Key(selected))
        matches == c.cache[Key(selected)]
    IN  /\ Memoised(c)
        /\ IF ~PickOK(matches, selected)
           THEN /\ err' = "IndexError@current_frame"
                /\ UNCHANGED <<window, level, viewVars, min, max, range>>
           ELSE LET f  == Transformed(Pick(matches, selected), nrot_, fliph_, flipv_)
                    v1 == percentile(f, 2)
                    v2 == percentile(f, 98)
                IN  /\ min' = FrameMin(f)
                    /\ max' = FrameMax(f)
                    /\ range' = max' - min'
                    /\ window' = 2 * (v2 - v1)
                    /\ level' = v2 + v1
                    /\ image' = [image EXCEPT !.clim = window_level(window', level', min')]
                    /\ canvas' = IF ax = "image" THEN image' ELSE Blank
                    /\ UNCHANGED <<ax, label>>
                    /\ err' = "none"
        /\ out' = NoOutput
        /\ Ran("mouseDoubleClickEvent")
        /\ UNCHANGED <<container, nphase, nset, nrep, nslice, ncontrast, nimg, data_, stack,
                       maximum, selected, checkedId, animVars, geomVars, mloc>>

mouseDoubleClickEvent ==
    LET c       == fetch_image(Memo, Key(selected))
        matches == c.cache[Key(selected)]
    IN  /\ Memoised(c)
        /\ IF ~PickOK(matches, selected)
           THEN /\ err' = "IndexError@current_frame"
                /\ UNCHANGED <<window, level, viewVars>>
           ELSE LET f  == Transformed(Pick(matches, selected), nrot_, fliph_, flipv_)
                    v1 == percentile(f, 2)
                    v2 == percentile(f, 98)
                IN  /\ window' = 2 * (v2 - v1)
                    /\ level' = v2 + v1
                    /\ update_wl(window', level')
                    /\ err' = "none"
        /\ out' = NoOutput
        /\ Ran("mouseDoubleClickEvent")
        /\ UNCHANGED <<dataVars, selected, checkedId, animVars, geomVars, mloc>>

-----------------------------------------------------------------------------
(* Export (contextMenuEvent) *)

\* a frame with every pixel brought into the clip range
Clipped(m, clim) ==
    [i \in 1..Len(m) |-> [j \in 1..Len(m[1]) |->
        IF 400 * m[i][j] < clim[1] THEN clim[1] \div 400
        ELSE IF 400 * m[i][j] > clim[2] THEN clim[2] \div 400 ELSE m[i][j]]]

\* mutant: the exported frame clipped to the clip range
saveAction_clipped ==
    LET c       == fetch_image(Memo, Key(selected))
        matches == c.cache[Key(selected)]
    IN  /\ Memoised(c)
        /\ IF ~PickOK(matches, selected)
           THEN /\ err' = "IndexError@saveAction"
                /\ out' = NoOutput
           ELSE /\ err' = "none"
                /\ out' = [kind |-> "frame",
                           frames |-> <<Clipped(Pick(matches, selected), image.clim)>>]
        /\ Ran("saveAction")
        /\ UNCHANGED <<dataVars, selected, checkedId, animVars, geomVars, wlVars,
                       viewVars>>

\* "Save Frame" as MAT or NPY: the picked array of the current selection
saveAction ==
    LET c       == fetch_image(Memo, Key(selected))
        matches == c.cache[Key(selected)]
    IN  /\ Memoised(c)
        /\ IF ~PickOK(matches, selected)
           THEN /\ err' = "IndexError@saveAction"
                /\ out' = NoOutput
           ELSE /\ err' = "none"
                /\ out' = [kind |-> "frame", frames |-> <<Pick(matches, selected)>>]
        /\ Ran("saveAction")
        /\ UNCHANGED <<dataVars, selected, checkedId, animVars, geomVars, wlVars,
                       viewVars>>

\* dim_idxs[pos] = ii on the five-element list dim_idxs: pos -1 is the last
\* element, pos 5 raises IndexError
ListAssignOK(pos) == pos \in -1..4

ListAssign(idxs, pos, ii) ==
    [idxs EXCEPT ![IF pos = -1 THEN 5 ELSE pos + 1] = ii]

\* the loop of save_movie from frame ii on: the memo state, the frames
\* collected and the error that ended the loop
RECURSIVE MovieLoop(_, _, _, _, _)
MovieLoop(ii, Nframes, dim_idxs, c, frames) ==
    IF ii >= Nframes
    THEN [c |-> c, frames |-> frames, err |-> "none"]
    ELSE IF ~ListAssignOK(checkedId - 1)
    THEN [c |-> c, frames |-> frames, err |-> "IndexError@dim_idxs"]
    ELSE LET idxs    == ListAssign(dim_idxs, checkedId - 1, ii)
             c2      == fetch_image(c, idxs)
             matches == c2.cache[idxs]
         IN  IF ~PickOK(matches, selected)
             THEN [c |-> c2, frames |-> frames, err |-> "IndexError@save_movie"]
             ELSE MovieLoop(ii + 1, Nframes, idxs, c2,
                            Append(frames, Transformed(Pick(matches, selected),
                                                       nrot_, fliph_, flipv_)))

save_movie ==
    LET c       == fetch_image(Memo, Key(selected))
        matches == c.cache[Key(selected)]
        dim_name == DIMS[checkedId + 1]
    IN  /\ IF ~PickOK(matches, selected)
           THEN /\ Memoised(c)
                /\ err' = "IndexError@current_frame"
                /\ out' = NoOutput
           ELSE LET r == MovieLoop(0, maximum[dim_name], Key(selected), c, <<>>)
                IN  /\ Memoised(r.c)
                    /\ err' = r.err
                    /\ out' = IF r.err = "none"
                              THEN [kind |-> "movie", frames |-> r.frames]
                              ELSE NoOutput
        /\ Ran("save_movie")
        /\ UNCHANGED <<dataVars, selected, checkedId, animVars, geomVars, wlVars,
                       viewVars>>

-----------------------------------------------------------------------------
(* Specifications *)

Navigate ==
    \/ \E dim \in DimNames : \E v \in 0..maximum[dim] : valueChanged(dim, v)
    \/ \E d \in WheelDeltas : wheelEvent(d)
    \/ \E dim_i \in 0..6 : check_dim(dim_i)

Animate ==
    \/ animate_frames
    \/ increment

Geometry ==
    \/ rotate_cw
    \/ rotate_ccw
    \/ flip_h
    \/ flip_v

WindowLevel ==
    \/ \E h \in WindowInputs : window_input(h)
    \/ \E h \in LevelInputs : level_input(h)
    \/ \E x \in PointerPositions : \E y \in PointerPositions : mouseMoveEvent(x, y)
    \/ mouseReleaseEvent
    \/ mouseDoubleClickEvent

Export ==
    \/ saveAction
    \/ save_movie

SpinBoxes ==
    \E dim \in DimNames : \E v \in 0..maximum[dim] : valueChanged(dim, v)

FrameRate ==
    \E fps \in FrameRates : set_timer_interval(fps)

\* navigation, animation, frame rate and export on every dataset
Next == Navigate \/ Animate \/ FrameRate \/ Export

Spec == Init /\ [][Next]_vars

\* spin-box navigation, rotation and flips on every dataset
NextGeom == SpinBoxes \/ Geometry

SpecGeom == Init /\ [][NextGeom]_vars

\* spin-box navigation and window/level on every dataset
NextWL == SpinBoxes \/ WindowLevel

SpecWL == Init /\ [][NextWL]_vars

\* navigation, animation, export, one rotation and one flip, on the sparse
\* dataset
InitCache == InitOn(Dataset(3))

NextCache == Navigate \/ Animate \/ Export \/ rotate_cw \/ flip_v

SpecCache == InitCache /\ [][NextCache]_vars

\* navigation, animation, frame rate and export on the dataset with fewer
\* records than coordinate tuples
InitSparse == InitOn(SparseThree)

SpecSparse == InitSparse /\ [][Next]_vars

\* the animation slot run with and without a click, the timers and the
\* axis buttons, on every dataset
NextHandler ==
    \/ animate_frames
    \/ animate_frames_called
    \/ increment
    \/ \E dim_i \in 0..6 : check_dim(dim_i)

SpecHandler == Init /\ [][NextHandler]_vars

\* the animation with spin-box navigation and the axis buttons on every
\* dataset, a running timer firing again and again
NextTicks ==
    \/ SpinBoxes
    \/ Animate
    \/ \E dim_i \in 0..6 : check_dim(dim_i)

SpecTicks == Init /\ [][NextTicks]_vars /\ WF_vars(increment)

\* every transform handler with spin-box navigation, on the two-record
\* dataset; one value per numeric input and the pointer on the diagonal
WindowLevelFew ==
    \/ window_input(10)
    \/ level_input(-2)
    \/ \E x \in PointerPositions : mouseMoveEvent(x, x)
    \/ mouseReleaseEvent
    \/ mouseDoubleClickEvent

InitTransform == InitOn(TwoRecords)

NextTransform == SpinBoxes \/ Geometry \/ WindowLevelFew

SpecTransform == InitTransform /\ [][NextTransform]_vars

\* navigation, animation, one rotation, one flip and window/level on the
\* two-record dataset
NextSession ==
    \/ Navigate
    \/ Animate
    \/ rotate_cw
    \/ flip_h
    \/ WindowLevelFew

SpecSession == InitTransform /\ [][NextSession]_vars

-----------------------------------------------------------------------------
(* The whole-stack variant (src/ismrmrdviewer/viewer/ImageViewer.py): it   *)
(* has no Contrast axis, no rotation or flip, and indexes self.stack       *)
(* instead of fetching records; its window/level handlers are those above. *)

\* DIMS of the variant
DIMS_stack == <<"Instance", "Repetition", "Set", "Phase", "Channel", "Slice">>

\* np.zeros of the shape of one record: channels x planes x rows x columns
zeros(record) ==
    [c \in 1..Len(record) |->
        [z \in 1..Len(record[c]) |->
            [i \in 1..Len(record[c][z]) |->
                [j \in 1..Len(record[c][z][i]) |-> 0]]]]

\* the stack the constructor's loop leaves: for ii in range(n / nimg), for
\* xi in range(nimg), record ii*xi+ii is stored at
\* [xi, its repetition, its set, its phase], a later store replacing an
\* earlier one; an element never stored stays zero
build_stack(hd, d, ni, nr, ns, np) ==
    [x \in 1..ni |-> [r \in 1..nr |-> [s \in 1..ns |-> [p \in 1..np |->
        LET hits == {ii \in 0..((Len(d) \div ni) - 1) :
                        /\ hd[ii * x + 1].repetition = r - 1
                        /\ hd[ii * x + 1].set = s - 1
                        /\ hd[ii * x + 1].phase = p - 1}
            last == CHOOSE m \in hits : \A h \in hits : h <= m
        IN  IF hits = {} THEN zeros(d[1]) ELSE d[last * x + 1]]]]]

\* self.stack.shape[0..5]
stack_shape ==
    <<Len(stack), Len(stack[1]), Len(stack[1][1]), Len(stack[1][1][1]),
      Len(stack[1][1][1][1]), Len(stack[1][1][1][1][1])>>

\* every pixel of the stack, as one row
RECURSIVE Concat(_)
Concat(s) == IF s = <<>> THEN <<>> ELSE Head(s) \o Concat(Tail(s))

StackPixels(st) == Concat(Concat(Concat(Concat(Concat(Concat(Concat(st)))))))

\* stack[frame][repetition][set][phase][coil][slice] raises no IndexError
StackIndexOK(st, sel) ==
    /\ sel["Instance"] < Len(st)
    /\ sel["Repetition"] < Len(st[1])
    /\ sel["Set"] < Len(st[1][1])
    /\ sel["Phase"] < Len(st[1][1][1])
    /\ sel["Channel"] < Len(st[1][1][1][1])
    /\ sel["Slice"] < Len(st[1][1][1][1][1])

StackFrame(st, sel) ==
    st[sel["Instance"] + 1][sel["Repetition"] + 1][sel["Set"] + 1][sel["Phase"] + 1]
      [sel["Channel"] + 1][sel["Slice"] + 1]

\* update_image() of the variant on stack st for selection sel, with img, cv,
\* lbl the image, canvas and label before the call.  An IndexError raised by
\* the indexing of the stack escapes after ax.clear() and before imshow and
\* canvas.draw(); one raised by the label's header lookup escapes after the
\* draw.
update_image_stack(st, sel, img, cv, lbl) ==
    IF ~StackIndexOK(st, sel)
    THEN [image |-> img, ax |-> "clear", canvas |-> cv, label |-> lbl,
          err |-> "IndexError@stack"]
    ELSE LET new == [frame |-> StackFrame(st, sel),
                     clim  |-> window_level(window, level, min)]
         IN  IF LabelIndex(sel) >= Len(headers)
             THEN [image |-> new, ax |-> "image", canvas |-> new, label |-> lbl,
                   err |-> "IndexError@label"]
             ELSE [image |-> new, ax |-> "image", canvas |-> new,
                   label |-> LabelOf(sel), err |-> "none"]

\* the state the variant's __init__ leaves on a dataset, if it completes
InitStackOn(dataset) ==
    /\ container = dataset
    /\ nphase = AxisCardinality("phase")
    /\ nset = AxisCardinality("set")
    /\ nrep = AxisCardinality("repetition")
    /\ nslice = 0
    /\ ncontrast = 0
    /\ nimg = Len(headers) \div (nphase * nset * nrep)
    /\ nimg >= 1
    /\ data_ = RotatedData(container.data)
    /\ stack = build_stack(headers, data_, nimg, nrep, nset, nphase)
    /\ maximum = [d \in DimNames |->
                    CASE d = "Instance"   -> nimg - 1
                      [] d = "Phase"      -> nphase - 1
                      [] d = "Set"        -> nset - 1
                      [] d = "Repetition" -> nrep - 1
                      [] d = "Channel"    -> stack_shape[3 + 1] - 1
                      [] d = "Slice"      -> stack_shape[4 + 1] - 1
                      [] OTHER            -> 0]
    /\ selected = Origin
    /\ checkedId = 0
    /\ animateChecked = FALSE
    /\ animateEnabled = (stack_shape[1] # 1)
    /\ timer = NoTimer
    /\ orphaned = <<>>
    /\ timer_interval = DefaultTimerInterval
    /\ nrot_ = 0
    /\ fliph_ = FALSE
    /\ flipv_ = FALSE
    /\ mloc = NoLoc
    /\ LET all == <<StackPixels(stack)>>
       IN  /\ min = FrameMin(all)
           /\ max = FrameMax(all)
           /\ range = FrameMax(all) - FrameMin(all)
           /\ range > 0
           /\ window = 2 * (percentile(all, 98) - percentile(all, 2))
           /\ level = percentile(all, 98) + percentile(all, 2)
    /\ cache = <<>>
    /\ scans = 0
    /\ requested = {}
    /\ LET u == update_image_stack(stack, Origin, Blank, Blank, <<>>)
       IN  /\ image = u.image
           /\ ax = u.ax
           /\ canvas = u.canvas
           /\ label = u.label
           /\ u.err = "none"
    /\ out = NoOutput
    /\ err = "none"
    /\ lastEvent = "__init__"
    /\ runImages = <<>>

InitStack == \E n \in 1..NumDatasets : InitStackOn(Dataset(n))

\* QSpinBox.setValue(x) on axis dim of the variant
setValue_stack(st, dim, x) ==
    LET v   == IF x < 0 THEN 0 ELSE IF x > maximum[dim] THEN maximum[dim] ELSE x
        sel == [selected EXCEPT ![dim] = v]
    IN  IF v = selected[dim]
        THEN [sel |-> selected, image |-> image, ax |-> ax, canvas |-> canvas,
              label |-> label, err |-> "none"]
        ELSE [sel |-> sel] @@ update_image_stack(st, sel, image, canvas, label)

Updated_stack(u) ==
    /\ selected' = u.sel
    /\ image' = u.image
    /\ ax' = u.ax
    /\ canvas' = u.canvas
    /\ label' = u.label
    /\ err' = u.err

\* the user changes the spin box of axis dim to v
valueChanged_stack(dim, v) ==
    /\ maximum[dim] > 0
    /\ v \in 0..maximum[dim]
    /\ v # selected[dim]
    /\ Updated_stack(setValue_stack(stack, dim, v))
    /\ out' = NoOutput
    /\ Ran("valueChanged")
    /\ UNCHANGED <<dataVars, checkedId, animVars, geomVars, wlVars, memoVars>>

wheelEvent_stack(delta_steps) ==
    LET dimName == DIMS_stack[checkedId + 1]
        new_v   == IF delta_steps > 0 THEN selected[dimName] - 1
                   ELSE selected[dimName] + 1
        limit   == stack_shape[checkedId + 1] - 1
        target  == IF new_v < limit THEN (IF new_v > 0 THEN new_v ELSE 0)
                   ELSE (IF limit > 0 THEN limit ELSE 0)
    IN  /\ IF delta_steps = 0
           THEN /\ err' = "none"
                /\ UNCHANGED <<selected, viewVars>>
           ELSE Updated_stack(setValue_stack(stack, dimName, target))
        /\ out' = NoOutput
        /\ Ran("wheelEvent")
        /\ UNCHANGED <<dataVars, checkedId, animVars, geomVars, wlVars, memoVars>>

\* the user clicks the button of an axis: buttonClicked -> check_dim
check_dim_stack(dim_i) ==
    /\ checkedId' = dim_i
    /\ animateEnabled' = (stack_shape[dim_i + 1] > 1)
    /\ out' = NoOutput
    /\ err' = "none"
    /\ Ran("check_dim")
    /\ UNCHANGED <<dataVars, selected, animateChecked, timer, orphaned, timer_interval,
                   geomVars, wlVars, memoVars, viewVars>>

\* self.stack.swapaxes(-2, -1): every plane transposed
swapaxes(st) ==
    [x \in 1..Len(st) |-> [r \in 1..Len(st[x]) |-> [s \in 1..Len(st[x][r]) |->
        [p \in 1..Len(st[x][r][s]) |-> [c \in 1..Len(st[x][r][s][p]) |->
            [z \in 1..Len(st[x][r][s][p][c]) |-> transpose(st[x][r][s][p][c][z])]]]]]]

\* "Transpose" in the context menu
transpose_image ==
    /\ stack' = swapaxes(stack)
    /\ LET u == update_image_stack(stack', selected, image, canvas, label)
       IN  /\ image' = u.image
           /\ ax' = u.ax
           /\ canvas' = u.canvas
           /\ label' = u.label
           /\ err' = u.err
    /\ out' = NoOutput
    /\ Ran("transpose_image")
    /\ UNCHANGED <<container, nphase, nset, nrep, nslice, ncontrast, nimg, data_,
                   maximum, min, max, range, selected, checkedId, animVars, geomVars,
                   wlVars, memoVars>>

\* navigation and transposition of the variant on every dataset
NextStack ==
    \/ \E i \in 1..Len(DIMS_stack) : \E v \in 0..maximum[DIMS_stack[i]] :
          valueChanged_stack(DIMS_stack[i], v)
    \/ \E d \in WheelDeltas : wheelEvent_stack(d)
    \/ \E dim_i \in 0..5 : check_dim_stack(dim_i)
    \/ transpose_image

SpecStack == InitStack /\ [][NextStack]_vars

-----------------------------------------------------------------------------
(* Claims *)

TransformEvents ==
    GeometricEvents \cup {"window_input", "level_input", "mouseMoveEvent",
                          "mouseReleaseEvent", "mouseDoubleClickEvent"}

\* the records of the dataset whose five coordinates equal those of key
Matching(key) ==
    {i \in 1..Len(headers) :
        /\ headers[i].repetition = key[1]
        /\ headers[i].set = key[2]
        /\ headers[i].phase = key[3]
        /\ headers[i].slice = key[4]
        /\ headers[i].contrast = key[5]}

\* s lists exactly the members of set S, in increasing order
ListsInOrder(s, S) ==
    /\ Len(s) = Cardinality(S)
    /\ \A j \in 1..Len(s) : s[j] \in S
    /\ \A j \in 1..Len(s) : \A k \in 1..Len(s) : j < k => s[j] < s[k]

\* C1: the number of dataset scans equals the number of distinct coordinate
\* tuples requested so far, every requested tuple has a cache entry holding
\* the records a scan returns, and no step removes or changes a cache entry.
C1_OneScanPerTuple ==
    /\ [](/\ scans = Cardinality(requested)
          /\ DOMAIN cache = requested
          /\ \A key \in requested : ListsInOrder(cache[key], Matching(key)))
    /\ [][\A key \in DOMAIN cache :
            key \in DOMAIN cache' /\ cache'[key] = cache[key]]_vars

\* C1 witness: a rotation re-requested the current tuple after all four
\* tuples of the sparse dataset, the empty one included, had been scanned
C1_Witness ==
    /\ lastEvent = "rotate_cw"
    /\ scans = 4
    /\ Key(selected) \in requested
    /\ \E key \in requested : cache[key] = <<>>

\* C2: every result of fetch_image lists exactly the records whose five
\* header coordinates equal the requested ones, in storage order.
C2_FetchIsExactFilter ==
    \A key \in DOMAIN cache : ListsInOrder(cache[key], Matching(key))

\* C2 witness: after a selection change, two fetched tuples, the matches of
\* one not contiguous in storage
C2_Witness ==
    /\ lastEvent = "valueChanged"
    /\ \E key \in DOMAIN cache : cache[key] = <<1, 2, 4>>
    /\ \E key \in DOMAIN cache : cache[key] = <<3>>

\* the pick of current_frame is outside the fetched array
PickOutOfRange ==
    \/ selected["Instance"] >= Len(cache[Key(selected)])
    \/ selected["Channel"] >= nchannel

\* the image holds the pixels of the selected instance and channel of the
\* matches of the selected tuple, flipped and rotated
ShowsPicked ==
    image.frame =
        Transformed(data_[cache[Key(selected)][selected["Instance"] + 1]]
                         [selected["Channel"] + 1][1],
                    nrot_, fliph_, flipv_)

\* C3: a tuple without records is fetched as the empty sequence, and a step
\* that changes the selection ends with IndexError raised by current_frame
\* exactly when the instance is not below the number of matches or the
\* channel not below the channel count; otherwise the image holds the pixels
\* of that very record and channel.
C3_PickRaisesOutOfRange ==
    /\ [](\A key \in DOMAIN cache : Matching(key) = {} => cache[key] = <<>>)
    /\ [][selected' # selected =>
            /\ (err' = "IndexError@current_frame") <=> PickOutOfRange'
            /\ ~PickOutOfRange' => ShowsPicked']_vars

\* C3 witness: the instance is beyond the matches of a tuple that has records
C3_Witness ==
    /\ lastEvent = "valueChanged"
    /\ err = "IndexError@current_frame"
    /\ Len(cache[Key(selected)]) = 1
    /\ selected["Instance"] = 1

\* C4 (as claimed): after a selection change onto a tuple without records no
\* error has escaped the handler and the canvas shows the empty frame.
C4_EmptySelectionShowsNoData ==
    (lastEvent = "valueChanged" /\ Matching(Key(selected)) = {}) =>
        /\ err = "none"
        /\ canvas = Blank

\* C5: a step of a transform handler (rotation, flip, window or level input,
\* drag, release, double-click reset) leaves the cache, the scan count and
\* the selection on all seven axes unchanged, and every cache key is a
\* five-coordinate tuple.
C5_TransformsLeaveIndexAlone ==
    /\ [](\A key \in DOMAIN cache : Len(key) = 5)
    /\ [][lastEvent' \in TransformEvents =>
            /\ cache' = cache
            /\ scans' = scans
            /\ selected' = selected]_vars

\* C5 witness: a double-click reset on a rotated, flipped frame of the second
\* tuple, with the window typed in before
C5_Witness ==
    /\ lastEvent = "mouseDoubleClickEvent"
    /\ nrot_ = 1
    /\ fliph_
    /\ scans = 2
    /\ selected["Repetition"] = 1

\* C6: after four consecutive rotate_cw events, or four consecutive
\* rotate_ccw events, the canvas shows the frame it showed before them; after
\* two consecutive flip_h events, or two consecutive flip_v events, likewise.
C6_GeometricRoundTrip ==
    /\ (lastEvent \in {"rotate_cw", "rotate_ccw"} /\ Len(runImages) = 4) =>
          canvas.frame = runImages[1].frame
    /\ (lastEvent \in {"flip_h", "flip_v"} /\ Len(runImages) >= 2) =>
          canvas.frame = runImages[Len(runImages) - 1].frame

\* C6 witness: the fourth of four counter-clockwise rotations of a flipped
\* frame, the canvas having shown another frame in between
C6_Witness ==
    /\ lastEvent = "rotate_ccw"
    /\ Len(runImages) = 4
    /\ fliph_
    /\ err = "none"
    /\ runImages[3].frame # canvas.frame
    /\ selected # Origin

\* a frame mirrored along its columns, along its rows, and turned by a
\* quarter, element by element
MirrorColumns(m) ==
    [i \in 1..Len(m) |-> [j \in 1..Len(m[1]) |-> m[i][Len(m[1]) + 1 - j]]]

MirrorRows(m) ==
    [i \in 1..Len(m) |-> [j \in 1..Len(m[1]) |-> m[Len(m) + 1 - i][j]]]

QuarterTurn(m) ==
    [i \in 1..Len(m[1]) |-> [j \in 1..Len(m) |-> m[j][Len(m[1]) + 1 - i]]]

RECURSIVE Turns(_, _)
Turns(m, k) == IF k = 0 THEN m ELSE Turns(QuarterTurn(m), k - 1)

Flips(m) ==
    LET a == IF fliph_ THEN MirrorColumns(m) ELSE m
    IN  IF flipv_ THEN MirrorRows(a) ELSE a

AllDistinct(m) == Cardinality({Flatten(m)[i] : i \in 1..Len(Flatten(m))}) = Len(Flatten(m))

\* the raw frame of the current selection
Raw ==
    data_[cache[Key(selected)][selected["Instance"] + 1]][selected["Channel"] + 1][1]

\* C7: whenever the selection picks a record, the canvas shows the raw frame
\* flipped (columns mirrored for the horizontal flip, rows for the vertical
\* one) and then turned nrot_ quarters; with exactly one flip set and an odd
\* number of quarters this differs, for a frame of distinct pixels, from
\* turning first and flipping afterwards.
C7_FlipsBeforeRotation ==
    ~PickOutOfRange =>
        /\ canvas.frame = Turns(Flips(Raw), nrot_)
        /\ (fliph_ # flipv_ /\ nrot_ % 2 = 1 /\ AllDistinct(Raw)) =>
              canvas.frame # Flips(Turns(Raw, nrot_))

\* C7 witness: a horizontal flip pressed after one rotation, on a frame other
\* than the initial one
C7_Witness ==
    /\ lastEvent = "flip_h"
    /\ fliph_
    /\ ~flipv_
    /\ nrot_ = 1
    /\ ~PickOutOfRange
    /\ selected # Origin
    /\ AllDistinct(Raw)

\* C8: the clip range on the image is (level*range - window/2*range + min,
\* level*range + window/2*range + min): in the model's units the width of the
\* clip range is twice the stored window, its low end is 2*level - window +
\* 400*min; with min 0, max 100, window 0.5 and level 0.5 it is (25, 75).
C8_ClipRangeFormula ==
    /\ image.clim[1] = 2 * level - window + 400 * min
    /\ image.clim[2] = 2 * level + window + 400 * min
    /\ image.clim[2] - image.clim[1] = 2 * window
    /\ (min = 0 /\ max = 100 /\ window = 100 * range /\ level = 100 * range) =>
          image.clim = <<25 * 400, 75 * 400>>

\* C8 witness: window 0.5 and level 0.5 typed in on data from 0 to 100
C8_Witness ==
    /\ lastEvent \in {"window_input", "level_input"}
    /\ min = 0
    /\ max = 100
    /\ window = 100 * range
    /\ level = 100 * range
    /\ canvas.clim = <<10000, 30000>>

\* C9 as stated: after every mouseMoveEvent the window is in [0, 2] and the
\* level in [0, 1]
C9_EveryMoveClamps ==
    lastEvent = "mouseMoveEvent" =>
        /\ 0 <= window /\ window <= 400 * range
        /\ 0 <= level /\ level <= 200 * range

\* C9: a mouseMoveEvent that finds a recorded pointer position leaves the
\* window in [0, 2] and the level in [0, 1] and pushes the clip range of the
\* clamped values; a mouseMoveEvent that finds none records the position and
\* changes neither window, level nor the clip range.
C9_AdjustingMoveClamps ==
    [][lastEvent' = "mouseMoveEvent" =>
          IF mloc # NoLoc
          THEN /\ 0 <= window' /\ window' <= 400 * range
               /\ 0 <= level' /\ level' <= 200 * range
               /\ image'.clim = <<2 * level' - window' + 400 * min,
                                  2 * level' + window' + 400 * min>>
          ELSE /\ window' = window
               /\ level' = level
               /\ image' = image]_vars

\* C9 witness: a drag that ran into the lower bound of the window and the
\* upper bound of the level
C9_Witness ==
    /\ lastEvent = "mouseMoveEvent"
    /\ mloc # NoLoc
    /\ window = 0
    /\ level = 200 * range
    /\ image.clim = <<400 * range + 400 * min, 400 * range + 400 * min>>

\* C10: after a window_input event the window is in [0, 2], after a
\* level_input event the level is in [0, 1].
C10_InputClamps ==
    /\ lastEvent = "window_input" => (0 <= window /\ window <= 400 * range)
    /\ lastEvent = "level_input" => (0 <= level /\ level <= 200 * range)

\* C11: a tick of the running timer on an axis of cardinality N > 1 (spin-box
\* maximum N - 1) takes that axis's selection from v to (v + 1) mod N.
C11_TickAdvancesModuloN ==
    [][(lastEvent' = "increment" /\ timer.active /\ maximum[timer.dimName] > 0) =>
          selected'[timer.dimName] =
              (selected[timer.dimName] + 1) % (maximum[timer.dimName] + 1)]_vars

\* C12: animate_frames requested while the checked axis has cardinality 1
\* (spin-box maximum 0) starts no timer, leaves the toggle unchecked and
\* changes no selection value; and the axis of every running timer has
\* cardinality (spin-box maximum plus one) greater than 1.
C12_SingletonGuard ==
    /\ [](\A t \in RunningTimers : maximum[t.dimName] + 1 > 1)
    /\ [][(lastEvent' = "animate_frames" /\ maximum[DIMS[checkedId + 1]] = 0) =>
            /\ timer' = timer
            /\ ~animateChecked'
            /\ selected' = selected]_vars

\* C13: a run of animate_frames that leaves the toggle off leaves no timer
\* running; while the toggle is off no timer runs, and a tick changes a
\* selection value only while the toggle is on.
C13_ToggleOffStopsTimer ==
    /\ [](~animateChecked => RunningTimers = {})
    /\ [][(lastEvent' = "animate_frames" /\ ~animateChecked') =>
            RunningTimers' = {}]_vars
    /\ [][(lastEvent' = "increment" /\ selected' # selected) => animateChecked]_vars

\* C13 witness: the toggle switched off on an axis that can be animated, after
\* a tick moved its selection
C13_Witness ==
    /\ lastEvent = "animate_frames"
    /\ ~animateChecked
    /\ animateEnabled
    /\ maximum[DIMS[checkedId + 1]] > 0
    /\ timer = NoTimer
    /\ selected[DIMS[checkedId + 1]] = 0
    /\ label # <<>>
    /\ scans >= 2

\* the number of QTimers that are running
NumRunning == Len(orphaned) + (IF timer.active THEN 1 ELSE 0)

\* C14: at most one timer is running in every state, and a run of
\* animate_frames with the toggle off and no timer running changes neither
\* the timers, the toggle nor the selection.
C14_AtMostOneTimer ==
    /\ [](NumRunning <= 1)
    /\ [][(lastEvent' = "animate_frames" /\ ~animateChecked /\ ~animateChecked'
             /\ NumRunning = 0) =>
            /\ timer' = timer
            /\ orphaned' = orphaned
            /\ selected' = selected]_vars

\* the cardinality of each axis as the viewer holds it
Cardinality_of(dim) ==
    CASE dim = "Instance"   -> nimg
      [] dim = "Repetition" -> nrep
      [] dim = "Set"        -> nset
      [] dim = "Phase"      -> nphase
      [] dim = "Slice"      -> nslice
      [] dim = "Contrast"   -> ncontrast
      [] OTHER              -> nchannel

\* C15: the cardinality of each of the five header coordinates is the largest
\* header value plus one and never changes, and after a spin-box, wheel or
\* tick event the selection on each of the seven axes is in 0 .. N_axis - 1.
C15_SelectionWithinCardinality ==
    /\ [](/\ nrep = AxisCardinality("repetition")
          /\ nset = AxisCardinality("set")
          /\ nphase = AxisCardinality("phase")
          /\ nslice = AxisCardinality("slice")
          /\ ncontrast = AxisCardinality("contrast"))
    /\ [][UNCHANGED <<nimg, nrep, nset, nphase, nslice, ncontrast, maximum>>]_vars
    /\ [](lastEvent \in {"valueChanged", "wheelEvent", "increment"} =>
            \A dim \in DimNames :
                selected[dim] >= 0 /\ selected[dim] <= Cardinality_of(dim) - 1)

\* the frame current_frame() gives for selection sel, where it picks a record
FrameOf(sel) ==
    Transformed(Pick(fetch_image_body(Key(sel)), sel), nrot_, fliph_, flipv_)

\* the current selection with the checked axis at value i
AlongAxis(i) == [selected EXCEPT ![DIMS[checkedId + 1]] = i]

\* C16: save_movie writes one frame for each value 0 .. N - 1 of the checked
\* axis, in increasing order, frame i being the frame of the current
\* selection with that axis at i (stated for N > 1 and where each of these
\* selections picks a record).
C16_MovieHasEveryFrame ==
    LET N == Cardinality_of(DIMS[checkedId + 1])
    IN  (/\ lastEvent = "save_movie"
         /\ N > 1
         /\ \A i \in 0..(N - 1) :
                PickOK(fetch_image_body(Key(AlongAxis(i))), AlongAxis(i))) =>
            /\ out.kind = "movie"
            /\ Len(out.frames) = N
            /\ \A i \in 0..(N - 1) : out.frames[i + 1] = FrameOf(AlongAxis(i))

\* C17: a run of saveAction (MAT or NPY) leaves the selection, the rotation,
\* the flips, window and level unchanged, and what it writes is the stored
\* frame of the selected tuple, instance and channel: neither clipped to the
\* clip range nor flipped or rotated; it writes nothing only when the
\* selection picks no record.
C17_ExportIsRawFrame ==
    [][lastEvent' = "saveAction" =>
          /\ selected' = selected
          /\ UNCHANGED <<nrot_, fliph_, flipv_, window, level>>
          /\ IF PickOutOfRange'
             THEN out' = NoOutput /\ err' = "IndexError@saveAction"
             ELSE out' = [kind |-> "frame", frames |-> <<Raw'>>]]_vars

\* C17 witness: a frame exported while it is shown rotated and flipped, with
\* its largest pixel above the clip range
C17_Witness ==
    /\ lastEvent = "saveAction"
    /\ out.kind = "frame"
    /\ nrot_ = 1
    /\ flipv_
    /\ canvas.frame # out.frames[1]
    /\ 400 * FrameMax(out.frames[1]) > image.clim[2]
    /\ selected # Origin

\* max - min of the frame of the current selection
CurrentRange == FrameMax(FrameOf(selected)) - FrameMin(FrameOf(selected))

\* C18 as stated: at construction and after a double-click, window is
\* (p98 - p2)/r and level (p98 + p2)/(2*r) with p2, p98 and r = max - min all
\* of the frame displayed at that moment (the stored window is in units of
\* 1/(200*range), so window*r = 2*(p98 - p2)*range).
C18_ResetUsesCurrentRange ==
    (lastEvent \in {"__init__", "mouseDoubleClickEvent"} /\ ~PickOutOfRange) =>
        /\ window * CurrentRange =
              2 * (percentile(FrameOf(selected), 98) - percentile(FrameOf(selected), 2)) * range
        /\ level * CurrentRange =
              (percentile(FrameOf(selected), 98) + percentile(FrameOf(selected), 2)) * range

\* C18: at construction and after a double-click on a selection that picks a
\* record, window is (p98 - p2)/range and level (p98 + p2)/(2*range) with p2
\* and p98 of the frame displayed at that moment and range the max - min of
\* the frame displayed at construction; a double-click on a selection that
\* picks no record leaves window and level as they were.
C18_ResetFromCurrentPercentiles ==
    /\ [](range = FrameMax(FrameOf(FirstSelection)) - FrameMin(FrameOf(FirstSelection)))
    /\ []((lastEvent \in {"__init__", "mouseDoubleClickEvent"} /\ ~PickOutOfRange) =>
            /\ window = 2 * (percentile(FrameOf(selected), 98)
                               - percentile(FrameOf(selected), 2))
            /\ level = percentile(FrameOf(selected), 98)
                         + percentile(FrameOf(selected), 2))
    /\ [][(lastEvent' = "mouseDoubleClickEvent" /\ PickOutOfRange') =>
            window' = window /\ level' = level]_vars

\* C18 witness: a double-click on a frame other than the first, whose max - min
\* differs from that of the first frame, after the window was typed in
C18_Witness ==
    /\ lastEvent = "mouseDoubleClickEvent"
    /\ ~PickOutOfRange
    /\ selected # FirstSelection
    /\ CurrentRange # range
    /\ canvas.frame = FrameOf(selected)
    /\ canvas.clim = <<2 * level - window + 400 * min, 2 * level + window + 400 * min>>

\* C19: after check_dim the animate button is enabled exactly when the
\* checked axis has cardinality greater than 1, and the checked axis is never
\* a singleton.
C19_AnimateEnabledIffPlural ==
    lastEvent = "check_dim" =>
        /\ animateEnabled = (Cardinality_of(DIMS[checkedId + 1]) > 1)
        /\ Cardinality_of(DIMS[checkedId + 1]) # 1

\* C20: at every tick the interval of the timer that fired is the configured
\* one, 1000/fps ms for the frame rate set last.
C20_TickPeriodIsConfigured ==
    [][lastEvent' = "increment" =>
          \A t \in RunningTimers : t.interval = timer_interval]_vars

\* C21: after the constructor or a spin-box change has drawn a frame, the
\* slice, contrast and repetition shown in the label are those of the
\* selection, and the header lookup for the label never leaves the header
\* array.
C21_LabelRecordMatchesSelection ==
    /\ err # "IndexError@label"
    /\ (lastEvent \in {"__init__", "valueChanged"} /\ err = "none") =>
          /\ label[2] = selected["Slice"]
          /\ label[3] = selected["Contrast"]
          /\ label[5] = selected["Repetition"]

\* a frame turned a quarter clockwise: its top row becomes its right column
ClockwiseTurn(m) ==
    [i \in 1..Len(m[1]) |-> [j \in 1..Len(m) |-> m[Len(m) + 1 - j][i]]]

\* C22: on a selection that picks a record, rotate_cw ("Rotate clockwise")
\* turns the frame on the canvas a quarter clockwise and rotate_ccw ("Rotate
\* counter-clockwise") a quarter counter-clockwise.
C22_ClockwiseIsClockwise ==
    [][~PickOutOfRange =>
          /\ lastEvent' = "rotate_cw" => canvas'.frame = ClockwiseTurn(canvas.frame)
          /\ lastEvent' = "rotate_ccw" => canvas'.frame = QuarterTurn(canvas.frame)]_vars

\* C23: nrot_ is in 0..3; rotate_cw adds one and rotate_ccw subtracts one
\* modulo 4; a rotate_ccw right after a rotate_cw, or the reverse, puts back
\* the frame shown before the pair; and the frame on the canvas is determined
\* by the selection, the flips and nrot_ alone, whatever rotations led to it.
C23_CounterModuloFour ==
    /\ [](nrot_ \in 0..3)
    /\ [][/\ lastEvent' = "rotate_cw" => nrot_' = (nrot_ + 1) % 4
          /\ lastEvent' = "rotate_ccw" => nrot_' = (nrot_ + 3) % 4]_vars
    /\ [][(\/ lastEvent = "rotate_cw" /\ lastEvent' = "rotate_ccw"
           \/ lastEvent = "rotate_ccw" /\ lastEvent' = "rotate_cw") =>
            canvas'.frame = runImages[Len(runImages)].frame]_vars
    /\ [](~PickOutOfRange => canvas.frame = FrameOf(selected))

\* C23 witness: a rotate_ccw that took the counter from 1 back to 0 on an
\* unflipped frame other than the first
C23_Witness ==
    /\ lastEvent = "rotate_ccw"
    /\ nrot_ = 0
    /\ ~fliph_
    /\ ~flipv_
    /\ ~PickOutOfRange
    /\ selected # FirstSelection
    /\ Len(runImages) = 1
    /\ runImages[1].frame = QuarterTurn(canvas.frame)
    /\ canvas.frame = Raw

\* C24: a mouseMoveEvent that finds no recorded position (the first of a
\* gesture, in particular the first after a mouseReleaseEvent) records the
\* pointer and leaves window and level alone; one that finds a position moves
\* the window by -0.01 per pixel of dx and the level by -0.01 per pixel of dy,
\* measured from that position, and then bounds them; a mouseReleaseEvent
\* clears the recorded position and changes neither window nor level.
C24_DragIsRelativeWithinGesture ==
    [][/\ lastEvent' = "mouseMoveEvent" =>
             /\ mloc' # NoLoc
             /\ IF mloc = NoLoc
                THEN window' = window /\ level' = level
                ELSE LET w == window - 2 * range * (mloc'[1] - mloc[1])
                         l == level - 2 * range * (mloc'[2] - mloc[2])
                     IN  /\ window' = IF w < 0 THEN 0
                                      ELSE IF w > 400 * range THEN 400 * range ELSE w
                         /\ level' = IF l < 0 THEN 0
                                     ELSE IF l > 200 * range THEN 200 * range ELSE l
       /\ lastEvent' = "mouseReleaseEvent" =>
             /\ mloc' = NoLoc
             /\ window' = window
             /\ level' = level
       /\ (lastEvent = "mouseReleaseEvent" /\ lastEvent' = "mouseMoveEvent") =>
             /\ window' = window
             /\ level' = level
             /\ image' = image]_vars

\* C24 witness: a release ending a gesture that dragged the window to its
\* lower bound and the level to its upper bound
C24_Witness ==
    /\ lastEvent = "mouseReleaseEvent"
    /\ mloc = NoLoc
    /\ window = 0
    /\ level = 200 * range

\* C25: under fair ticks, an animation left to run (from some point on only
\* ticks happen) on an axis of cardinality N > 1 shows every value 0..N-1 of
\* that axis again and again, the last one included, and changes the
\* selection infinitely often.
C25_AnimationVisitsEveryValue ==
    <>[](/\ lastEvent = "increment"
         /\ timer.active
         /\ maximum[timer.dimName] >= 1)
    => /\ \A k \in 0..2 :
            []<>(timer.active /\ k <= maximum[timer.dimName]
                    => selected[timer.dimName] = k)
       /\ []<><<selected' # selected>>_vars

\* C26: after every handler a timer is running exactly when the animate
\* toggle is checked, also after check_dim has disabled the button while a
\* timer runs.
C26_TimerIffChecked ==
    /\ animateChecked <=> timer.active
    /\ animateChecked <=> RunningTimers # {}

\* C26 witness: check_dim disabled the animate button while the timer of
\* another axis runs
C26_Witness ==
    /\ lastEvent = "check_dim"
    /\ ~animateEnabled
    /\ animateChecked
    /\ timer.active
    /\ timer.dimName # DIMS[checkedId + 1]

\* C27: a tick changes the selection of no axis but the one its timer was
\* started on, and leaves nrot_, both flips, window and level as they were;
\* check_dim, which moves the checked axis, leaves the running timer and its
\* axis as they were.
C27_TickMovesItsAxisOnly ==
    /\ [][lastEvent' = "increment" =>
            /\ \A d \in DimNames \ {timer.dimName} : selected'[d] = selected[d]
            /\ timer' = timer
            /\ UNCHANGED <<nrot_, fliph_, flipv_, window, level>>]_vars
    /\ [][lastEvent' = "check_dim" => timer' = timer]_vars

\* C27 witness: a tick of a timer started on one axis while the button of
\* another axis, whose selection is not 0, is checked
C27_Witness ==
    /\ lastEvent = "increment"
    /\ timer.active
    /\ timer.dimName # DIMS[checkedId + 1]
    /\ selected[DIMS[checkedId + 1]] = 1
    /\ selected[timer.dimName] = 0
    /\ err = "none"

\* C28: in every state the clip range on the image is not inverted: its low
\* end is at most its high end.
C28_ClipRangeNotInverted ==
    image.clim[1] <= image.clim[2]

\* C29: on the checked axis, of cardinality N, a wheel step with a negative
\* delta takes a selection v < N - 1 to v + 1, one with a positive delta
\* takes v > 0 to v - 1, past either end the selection stays, and a zero
\* delta changes no selection.
C29_WheelStepsByOne ==
    LET d == DIMS[checkedId + 1]
        N == Cardinality_of(d)
        v == selected[d]
    IN  /\ ENABLED (wheelEvent(-1) /\ selected'[d] = IF v < N - 1 THEN v + 1 ELSE v)
        /\ ENABLED (wheelEvent(1) /\ selected'[d] = IF v > 0 THEN v - 1 ELSE v)
        /\ ENABLED (wheelEvent(0) /\ selected' = selected)

\* C30: min, max and range are those of the frame displayed at construction
\* and no event changes them: a selection change, a wheel step, a tick, a
\* rotation, a flip, a window or level input, a drag or a double-click.
C30_RangeFixedAtConstruction ==
    /\ [](/\ min = FrameMin(FrameOf(FirstSelection))
          /\ max = FrameMax(FrameOf(FirstSelection))
          /\ range = max - min)
    /\ [][UNCHANGED <<min, max, range>>]_vars

\* C30 witness: a double-click on a frame whose smallest pixel is not min
C30_Witness ==
    /\ lastEvent = "mouseDoubleClickEvent"
    /\ ~PickOutOfRange
    /\ selected # FirstSelection
    /\ canvas.frame = FrameOf(selected)
    /\ FrameMin(canvas.frame) # min
    /\ FrameMax(canvas.frame) # max

\* C31: in the whole-stack variant the maximum of the Channel spin box is
\* the stack's channel count minus one and that of the Slice spin box its
\* slice count minus one, so that the selection is within the stack on each
\* of its six axes and indexing the stack never raises.
C31_ControlsIndexInsideStack ==
    /\ maximum["Channel"] = stack_shape[5] - 1
    /\ maximum["Slice"] = stack_shape[6] - 1
    /\ StackIndexOK(stack, selected)
    /\ err # "IndexError@stack"

=============================================================================
